---- MODULE Spec2Model ----
(***************************************************************************)
(* CustomDecisionTree of                                                   *)
(* Utkarsha_Aryal_2407743_Decision_Tree_Scratch_and_scikit_Learn.ipynb:    *)
(* one instance (max_depth, tree), the driver's loaded data, and the call  *)
(* stack of _build_tree while a fit is running.                            *)
(*                                                                         *)
(* numpy arrays are sequences: a matrix X is a sequence of rows, a row a   *)
(* sequence of feature values, y a sequence of labels.  Python indices are *)
(* 0-based and kept so in the tree (feature_idx) and in the labels; a      *)
(* sequence is read at index + 1.                                          *)
(***************************************************************************)
EXTENDS Integers, Sequences, FiniteSets, TLC

\* ------------------------------------------------------------------ bounds
\* Most rows of a loaded one-column data set.
MaxRows == 3
\* Feature values and class labels of the generated data sets.  Three
\* values in three rows are the least case of two thresholds of one feature
\* with equal positive gain; label 2 with two rows is the least case of a
\* label that is no row index.
Values == 1 .. 3
Labels == 0 .. 2
\* The interpreter's recursion limit (1000 frames in CPython), scaled to the
\* data: a build that terminates nests at most one frame per row.
RecursionLimit == MaxRows + 2

\* max_depth=None (line 32) is the integer -1; 0, 1 and 2 are the depths tried.
NoDepth == 0 - 1
DepthOptions == {NoDepth, 0, 1, 2}

\* self.tree = None, best_split = None, a call that returned nothing.
None == [none |-> TRUE]

\* best_info_gain = -float('inf'): below every gain.
NegInf == 0 - 2000000000

\* ------------------------------------------------------------- numpy helpers
RECURSIVE SortedSeq(_)
SortedSeq(S) ==
    IF S = {} THEN << >>
    ELSE LET lo == CHOOSE v \in S : \A w \in S : v <= w
         IN  <<lo>> \o SortedSeq(S \ {lo})

\* (np.unique mistaken for a call that keeps repeated values)
UniqueKeepsRepeats(a) == a

\* np.unique(a): the distinct values, ascending.
Unique(a) == SortedSeq({a[i] : i \in DOMAIN a})

\* X[:, feature_idx]
Column(X, feature_idx) == [i \in DOMAIN X |-> X[i][feature_idx + 1]]

RECURSIVE SelectIdx(_, _, _)
SelectIdx(a, mask, i) ==
    IF i > Len(a) THEN << >>
    ELSE (IF mask[i] THEN <<a[i]>> ELSE << >>) \o SelectIdx(a, mask, i + 1)

\* a[mask] for a boolean mask of the same length.
Select(a, mask) == SelectIdx(a, mask, 1)

\* Whether X[idx] with an integer index array raises IndexError.
IndexOutOfRange(X, idx) == \E i \in DOMAIN idx : idx[i] >= Len(X)

\* X[idx] with an integer index array: row idx[i] of X at position i.
Take(X, idx) == [i \in DOMAIN idx |-> X[idx[i] + 1]]

MaxOf(S) == CHOOSE v \in S : \A w \in S : w <= v

\* np.bincount(y): counts of 0 .. max(y), position v + 1 for label v; empty
\* for an empty y.
Bincount(y) ==
    IF y = << >> THEN << >>
    ELSE [v \in 1 .. (MaxOf({y[i] : i \in DOMAIN y}) + 1) |->
              Cardinality({i \in DOMAIN y : y[i] = v - 1})]

\* b.argmax() of a non-empty b: the first position of the greatest count,
\* as a label.
Argmax(b) ==
    (CHOOSE v \in DOMAIN b :
        /\ \A w \in DOMAIN b : b[w] <= b[v]
        /\ \A w \in DOMAIN b : b[w] = b[v] => v <= w) - 1

RECURSIVE SumSeq(_)
SumSeq(s) == IF s = << >> THEN 0 ELSE Head(s) + SumSeq(Tail(s))

\* ------------------------------------------------------------------ entropy
\* log2 of 1 .. 6 in millionths of a bit; log2(6) = 1 + log2(3) is kept exact
\* against the table's own entries so that equal real values stay equal.
Log2 == <<0, 1000000, 1584963, 2000000, 2321928, 2584963>>

\* One term class_probs * log2(class_probs + 1e-9) of line 132 for a class of
\* c among n labels (line 131 reads `np.bincount(y) / len(y)`; the words
\* after it are the remains of its comment).  Entropies are measured in 1/60
\* of a millionth of a bit, so that the divisions by len(y) and len(parent)
\* (1 .. 6) are exact and equal real gains stay equal.  The 1e-9 moves a
\* term by under 2e-9 bit, below this resolution: for label vectors of up to
\* four labels it changes the order of no two candidates' gains (from five
\* labels on it separates some gains that are equal without it).  A class of
\* count 0 contributes 0 either way.
PLogP(c, n) == IF c = 0 THEN 0 ELSE (60 \div n) * c * (Log2[c] - Log2[n])

\* _entropy(y), lines 131-132.  bincount of an empty y is empty and the sum
\* over it is 0.
Entropy(y) ==
    LET b == Bincount(y)
    IN  0 - SumSeq([v \in DOMAIN b |-> PLogP(b[v], Len(y))])

\* _information_gain(parent, left, right), lines 114-119.
InformationGain(parent, left, right) ==
    LET parent_entropy == Entropy(parent)
        left_entropy == Entropy(left)
        right_entropy == Entropy(right)
        weighted_avg_entropy ==
            (Len(left) * left_entropy) \div Len(parent)
            + (Len(right) * right_entropy) \div Len(parent)
    IN  parent_entropy - weighted_avg_entropy

\* ------------------------------------------------------------- split search
\* The (feature_idx, threshold) pairs in the order of the loops of lines
\* 74-76: features ascending, np.unique thresholds ascending within one.
RECURSIVE CandidatesFrom(_, _)
CandidatesFrom(X, feature_idx) ==
    IF X = << >> \/ feature_idx >= Len(X[1]) THEN << >>
    ELSE LET thresholds == Unique(Column(X, feature_idx))
         IN  [j \in DOMAIN thresholds |-> <<feature_idx, thresholds[j]>>]
             \o CandidatesFrom(X, feature_idx + 1)

Candidates(X) == CandidatesFrom(X, 0)

\* (the split test written < instead of <=)
LeftMaskStrict(X, feature_idx, threshold) ==
    [i \in DOMAIN X |-> X[i][feature_idx + 1] < threshold]

\* left_mask = X[:, feature_idx] <= threshold
LeftMask(X, feature_idx, threshold) ==
    [i \in DOMAIN X |-> X[i][feature_idx + 1] <= threshold]

\* (the comparison written >=, so that the last of equal gains wins)
ImprovesOrTies(info_gain, best_info_gain) == info_gain >= best_info_gain

\* if info_gain > best_info_gain, line 84.
Improves(info_gain, best_info_gain) == info_gain > best_info_gain

\* One pass of the inner loop body, lines 77-91, on the tracked best.
Examine(best, X, y, feature_idx, threshold) ==
    LET left_mask == LeftMask(X, feature_idx, threshold)
        right_mask == [i \in DOMAIN X |-> ~left_mask[i]]
        left_y == Select(y, left_mask)
        right_y == Select(y, right_mask)
        info_gain == InformationGain(y, left_y, right_y)
    IN  IF Improves(info_gain, best.best_info_gain)
        THEN [best_info_gain |-> info_gain,
              best_split |-> [feature_idx |-> feature_idx,
                              threshold |-> threshold,
                              left_y |-> left_y,
                              right_y |-> right_y]]
        ELSE best

\* ------------------------------------------------------------------- nodes
Leaf(c) == [class |-> c]
Internal(feature_idx, threshold, left_tree, right_tree) ==
    [feature_idx |-> feature_idx, threshold |-> threshold,
     left_tree |-> left_tree, right_tree |-> right_tree]
IsLeaf(t) == "class" \in DOMAIN t

\* (the depth test written > instead of >=)
DepthCutLate(md, depth) == md # NoDepth /\ md # 0 /\ depth > md

\* self.max_depth and depth >= self.max_depth, line 69: None and 0 are falsy.
DepthCut(md, depth) == md # NoDepth /\ md # 0 /\ depth >= md

\* _predict_single(x, tree), lines 157-164, on a built tree.
RECURSIVE PredictSingle(_, _)
PredictSingle(x, t) ==
    IF IsLeaf(t) THEN t.class
    ELSE IF x[t.feature_idx + 1] <= t.threshold
         THEN PredictSingle(x, t.left_tree)
         ELSE PredictSingle(x, t.right_tree)

\* The loops of lines 74-91 from candidate k on.
RECURSIVE SearchFrom(_, _, _, _)
SearchFrom(best, X, y, k) ==
    IF k > Len(Candidates(X)) THEN best
    ELSE SearchFrom(Examine(best, X, y, Candidates(X)[k][1], Candidates(X)[k][2]),
                    X, y, k + 1)

Raised(exc) == [raised |-> exc]
IsRaised(r) == "raised" \in DOMAIN r

\* _build_tree(X, y, depth), lines 64-100, of an instance with max_depth md,
\* as one function: the node returned or the exception raised.
RECURSIVE BuildTree(_, _, _, _)
BuildTree(md, X, y, depth) ==
    LET unique_classes == Unique(y)
        best_split == SearchFrom([best_info_gain |-> NegInf, best_split |-> None],
                                 X, y, 1).best_split
    IN  IF Len(unique_classes) = 1 THEN Leaf(unique_classes[1])
        ELSE IF Len(X) = 0 \/ DepthCut(md, depth)
        THEN IF Bincount(y) = << >> THEN Raised("ValueError")
             ELSE Leaf(Argmax(Bincount(y)))
        ELSE IF best_split = None THEN Leaf(Argmax(Bincount(y)))
        ELSE IF IndexOutOfRange(X, best_split.left_y) THEN Raised("IndexError")
        ELSE IF depth + 1 >= RecursionLimit THEN Raised("RecursionError")
        ELSE LET left_tree == BuildTree(md, Take(X, best_split.left_y),
                                        best_split.left_y, depth + 1)
             IN  IF IsRaised(left_tree) THEN left_tree
                 ELSE IF IndexOutOfRange(X, best_split.right_y)
                 THEN Raised("IndexError")
                 ELSE LET right_tree == BuildTree(md, Take(X, best_split.right_y),
                                                  best_split.right_y, depth + 1)
                      IN  IF IsRaised(right_tree) THEN right_tree
                          ELSE Internal(best_split.feature_idx,
                                        best_split.threshold,
                                        left_tree, right_tree)

\* -------------------------------------------------------------------- data
Rows(m) == [1 .. m -> Values]
\* The round-trip data set of the specification's section 8.
RoundTripX == <<(<<1>>), (<<2>>), (<<3>>), (<<4>>)>>
RoundTripY == <<0, 0, 1, 1>>
\* Every labelled matrix of 1 .. rows rows drawn from the given rows.
Labelled(rows, most) ==
    UNION {{[X |-> X, y |-> y] : X \in [1 .. n -> rows], y \in [1 .. n -> Labels]}
           : n \in 1 .. most}
\* One-column data of up to MaxRows rows, two-column data of up to two rows
\* over the values 1 and 2, and the round-trip data set.
Datasets ==
    Labelled(Rows(1), MaxRows)
    \cup Labelled([1 .. 2 -> 1 .. 2], 2)
    \cup {[X |-> RoundTripX, y |-> RoundTripY]}
\* The data of the runs that fit more than one training set.
RefitDatasets == Labelled([1 .. 1 -> 1 .. 2], MaxRows)

\* ------------------------------------------------------------------- state
VARIABLES
    max_depth,  \* self.max_depth
    tree,       \* self.tree
    data,       \* the driver's loaded data [X, y]
    stack,      \* frames of _build_tree, innermost last
    ret,        \* value just returned by a _build_tree call, or None
    call,       \* the latest call on the instance: its arguments, self.tree
                \* as the call found it, and how the call ended
    fitted      \* [X, y] of the latest fit that returned, or None

vars == <<max_depth, tree, data, stack, ret, call, fitted>>

NoCall == [op |-> "none", X |-> << >>, y |-> << >>, before |-> None,
           status |-> "returned", value |-> << >>, exc |-> "none"]

Frame(X, y, depth) ==
    [X |-> X, y |-> y, depth |-> depth, pc |-> "enter", k |-> 1,
     best_info_gain |-> NegInf, best_split |-> None, left_tree |-> None]

Top == stack[Len(stack)]
Running == call.status = "running"

\* __init__, lines 39-40, and the driver loading its data.
InitOn(loaded) ==
    /\ max_depth \in DepthOptions
    /\ tree = None
    /\ data \in loaded
    /\ stack = << >>
    /\ ret = None
    /\ call = NoCall
    /\ fitted = None

\* return node: the frame is popped and its value handed to the caller.
Return(node) ==
    /\ stack' = SubSeq(stack, 1, Len(stack) - 1)
    /\ ret' = node
    /\ UNCHANGED <<max_depth, tree, data, call, fitted>>

\* An exception unwinds every frame and leaves fit before line 50 assigns.
Raise(exc) ==
    /\ stack' = << >>
    /\ ret' = None
    /\ call' = [call EXCEPT !.status = "raised", !.exc = exc]
    /\ UNCHANGED <<max_depth, tree, data, fitted>>

\* self._build_tree(X, y, depth + 1) from the top frame, whose pc moves on.
CallChild(pc, child_y, left_tree) ==
    IF IndexOutOfRange(Top.X, child_y) THEN Raise("IndexError")
    ELSE IF Len(stack) >= RecursionLimit THEN Raise("RecursionError")
    ELSE /\ stack' = Append([stack EXCEPT ![Len(stack)].pc = pc,
                                          ![Len(stack)].left_tree = left_tree],
                            Frame(Take(Top.X, child_y), child_y, Top.depth + 1))
         /\ ret' = None
         /\ UNCHANGED <<max_depth, tree, data, call, fitted>>

Init == InitOn(Datasets)
InitRefit == InitOn(RefitDatasets)

\* fit(X, y), line 50, up to the call of _build_tree, on the n leading rows
\* of the loaded data.
Fit(n) ==
    /\ ~Running
    /\ stack' = <<Frame(SubSeq(data.X, 1, n), SubSeq(data.y, 1, n), 0)>>
    /\ ret' = None
    /\ call' = [op |-> "fit", X |-> SubSeq(data.X, 1, n),
                y |-> SubSeq(data.y, 1, n), before |-> tree,
                status |-> "running", value |-> << >>, exc |-> "none"]
    /\ UNCHANGED <<max_depth, tree, data, fitted>>

\* _build_tree, lines 64-72: the leaf tests, else the search starts.
Enter ==
    /\ stack # << >>
    /\ Top.pc = "enter"
    /\ LET unique_classes == Unique(Top.y)
       IN  IF Len(unique_classes) = 1 THEN Return(Leaf(unique_classes[1]))
           ELSE IF Len(Top.X) = 0 \/ DepthCut(max_depth, Top.depth)
           THEN IF Bincount(Top.y) = << >> THEN Raise("ValueError")
                ELSE Return(Leaf(Argmax(Bincount(Top.y))))
           ELSE /\ stack' = [stack EXCEPT ![Len(stack)].pc = "search"]
                /\ UNCHANGED <<max_depth, tree, data, ret, call, fitted>>

\* _build_tree, lines 74-91: one candidate threshold is examined.
Search ==
    /\ stack # << >>
    /\ Top.pc = "search"
    /\ Top.k <= Len(Candidates(Top.X))
    /\ LET c == Candidates(Top.X)[Top.k]
           best == Examine([best_info_gain |-> Top.best_info_gain,
                            best_split |-> Top.best_split],
                           Top.X, Top.y, c[1], c[2])
       IN  stack' = [stack EXCEPT ![Len(stack)].k = Top.k + 1,
                                  ![Len(stack)].best_info_gain = best.best_info_gain,
                                  ![Len(stack)].best_split = best.best_split]
    /\ UNCHANGED <<max_depth, tree, data, ret, call, fitted>>

\* _build_tree, lines 93-96: after the loops, the left recursive call.
Split ==
    /\ stack # << >>
    /\ Top.pc = "search"
    /\ Top.k > Len(Candidates(Top.X))
    /\ IF Top.best_split = None
       THEN Return(Leaf(Argmax(Bincount(Top.y))))
       ELSE CallChild("left", Top.best_split.left_y, None)

\* _build_tree, lines 96-97: the left call returned, the right call is made.
ResumeLeft ==
    /\ stack # << >>
    /\ Top.pc = "left"
    /\ ret # None
    /\ CallChild("right", Top.best_split.right_y, ret)

\* _build_tree, lines 97-100: the right call returned, the node is built.
ResumeRight ==
    /\ stack # << >>
    /\ Top.pc = "right"
    /\ ret # None
    /\ Return(Internal(Top.best_split.feature_idx, Top.best_split.threshold,
                       Top.left_tree, ret))

\* (a fit that keeps a tree already stored)
FitStoreKeepsOld(old, built) == IF old = None THEN built ELSE old

\* self.tree = <the built tree>, line 50.
FitStore(old, built) == built

\* fit, line 50: _build_tree returned and the tree is assigned.
FitReturn ==
    /\ Running
    /\ stack = << >>
    /\ ret # None
    /\ tree' = FitStore(tree, ret)
    /\ ret' = None
    /\ call' = [call EXCEPT !.status = "returned"]
    /\ fitted' = [X |-> call.X, y |-> call.y]
    /\ UNCHANGED <<max_depth, data, stack>>

\* The matrices predict is called with: no rows, the loaded X, and every
\* single row with the loaded data's number of columns.
PredictInputs ==
    {<< >>, data.X} \cup {<<r>> : r \in Rows(Len(data.X[1]))}

\* predict(X), line 144: the list comprehension over the rows of X.  With
\* self.tree still None, 'class' in tree raises TypeError for the first row.
Predict(X) ==
    /\ ~Running
    /\ IF tree = None /\ X # << >>
       THEN call' = [op |-> "predict", X |-> X, y |-> << >>, before |-> tree,
                     status |-> "raised", value |-> << >>, exc |-> "TypeError"]
       ELSE call' = [op |-> "predict", X |-> X, y |-> << >>, before |-> tree,
                     status |-> "returned",
                     value |-> [i \in DOMAIN X |-> PredictSingle(X[i], tree)],
                     exc |-> "none"]
    /\ UNCHANGED <<max_depth, tree, data, stack, ret, fitted>>

\* The driver fits on all of the loaded data.
Next ==
    \/ Fit(Len(data.X))
    \/ Enter
    \/ Search
    \/ Split
    \/ ResumeLeft
    \/ ResumeRight
    \/ FitReturn
    \/ \E X \in PredictInputs : Predict(X)

Spec == Init /\ [][Next]_vars

\* The driver fits on leading slices of the loaded data, in any order.
NextRefit ==
    \/ \E n \in 1 .. Len(data.X) : Fit(n)
    \/ Enter
    \/ Search
    \/ Split
    \/ ResumeLeft
    \/ ResumeRight
    \/ FitReturn
    \/ \E X \in PredictInputs : Predict(X)

SpecRefit == InitRefit /\ [][NextRefit]_vars

\* ================================================================== claims
\* All labels of y are one label.
Pure(y) == y # << >> /\ \A i \in DOMAIN y : y[i] = y[1]
\* The most frequent label of a non-empty y, the lowest among the most frequent.
Majority(y) ==
    CHOOSE c \in {y[i] : i \in DOMAIN y} :
        \A d \in {y[i] : i \in DOMAIN y} :
            LET nc == Cardinality({i \in DOMAIN y : y[i] = c})
                nd == Cardinality({i \in DOMAIN y : y[i] = d})
            IN  nd < nc \/ (nd = nc /\ c <= d)
FitEnded == call.op = "fit" /\ ~Running
FitReturned == call.op = "fit" /\ call.status = "returned"
PredictEnded == call.op = "predict"
Frames == DOMAIN stack

\* C1: a fit on labels that are all one label stores the single Leaf of that
\* label, and a predict after it returns that label for every row given.
C1_PureLabelsSingleLeaf ==
    /\ (FitEnded /\ Pure(call.y)) =>
           (call.status = "returned" /\ tree = Leaf(call.y[1]))
    /\ (PredictEnded /\ fitted # None /\ Pure(fitted.y)) =>
           /\ call.status = "returned"
           /\ Len(call.value) = Len(call.X)
           /\ \A i \in DOMAIN call.value : call.value[i] = fitted.y[1]

C1_Witness ==
    /\ PredictEnded
    /\ fitted # None
    /\ Pure(fitted.y)
    /\ Len(fitted.y) >= 2
    /\ fitted.X[1] # fitted.X[2]
    /\ Len(call.X) >= 2
    /\ max_depth = NoDepth

\* C2: with max_depth = 0 a fit on any non-empty training set stores the
\* single Leaf of the majority label, the lowest label among the most
\* frequent; the root call neither searches for a split nor recurses, so no
\* Internal node is made.
C2_DepthZeroSingleLeaf ==
    max_depth = 0 =>
        /\ \A i \in Frames : stack[i].depth = 0 /\ stack[i].pc = "enter"
        /\ FitEnded =>
               (call.status = "returned" /\ tree = Leaf(Majority(call.y)))

\* C3: with max_depth unset a fit terminates: every nested build call has
\* fewer samples than its caller, no fit ends in the recursion limit, and a
\* fit on rows of identical features stores the majority Leaf.
C3_UnsetDepthTerminates ==
    max_depth = NoDepth =>
        /\ \A i \in Frames : i > 1 => Len(stack[i].X) < Len(stack[i - 1].X)
        /\ call.exc # "RecursionError"
        /\ (FitEnded /\ \A i \in DOMAIN call.X : call.X[i] = call.X[1]) =>
               (call.status = "returned" /\ tree = Leaf(Majority(call.y)))

\* C4: with a positive max_depth a fit on a non-empty training set with
\* non-negative integer labels raises nothing and leaves a tree stored.
C4_PositiveDepthFitNeverRaises ==
    (max_depth > 0 /\ FitEnded) => (call.status = "returned" /\ tree # None)

\* C5: predict on an instance whose tree is still None fails explicitly for
\* every X, the empty one included: it returns no labels and does not reach
\* into the missing tree.
C5_PredictBeforeFitFails ==
    (PredictEnded /\ tree = None) =>
        (call.status = "raised" /\ call.exc # "TypeError")

\* Leaves of t, rooted at the given depth, lie at depth <= d and internal
\* nodes at depth < d.
RECURSIVE WithinDepth(_, _, _)
WithinDepth(t, depth, d) ==
    IF IsLeaf(t) THEN depth <= d
    ELSE /\ depth < d
         /\ WithinDepth(t.left_tree, depth + 1, d)
         /\ WithinDepth(t.right_tree, depth + 1, d)

RECURSIVE Height(_)
Height(t) ==
    IF IsLeaf(t) THEN 0
    ELSE LET l == Height(t.left_tree)
             r == Height(t.right_tree)
         IN  1 + (IF l >= r THEN l ELSE r)

\* C6: with a positive max_depth d, build is never invoked at a depth above
\* d, and the stored tree has its leaves at depth <= d and no internal node
\* at depth >= d.
C6_TreeWithinMaxDepth ==
    max_depth > 0 =>
        /\ \A i \in Frames : stack[i].depth <= max_depth
        /\ tree # None => WithinDepth(tree, 0, max_depth)

C6_Witness ==
    /\ max_depth = 2
    /\ FitReturned
    /\ tree # None
    /\ Height(tree) = 2

\* C7: whenever no call is running, the stored tree is the tree a fresh
\* instance with the same max_depth builds from the training set of the
\* latest fit that returned (None before any): a fit replaces the tree
\* whole, a predict leaves it.
C7_TreeIsFreshBuildOfLatestFit ==
    ~Running =>
        tree = IF fitted = None THEN None
               ELSE BuildTree(max_depth, fitted.X, fitted.y, 0)

\* A fit has just returned on an instance that held another tree, built from
\* another training set.
C7_Witness ==
    /\ FitReturned
    /\ call.before # None
    /\ call.before # tree
    /\ ~IsLeaf(tree)
    /\ ~IsLeaf(call.before)

\* The gain of candidate j of a frame, as line 82 computes it.
GainOf(f, j) ==
    LET c == Candidates(f.X)[j]
        left_mask == LeftMask(f.X, c[1], c[2])
    IN  InformationGain(f.y, Select(f.y, left_mask),
                        Select(f.y, [i \in DOMAIN f.X |-> ~left_mask[i]]))

\* C8: on X = [[1],[2],[3],[4]], y = [0,0,1,1] with max_depth = 1, threshold 2
\* is the one candidate of greatest gain, fit stores the Internal root
\* (feature 0, threshold 2, Leaf 0, Leaf 1), and predict on X returns
\* [0,0,1,1].
C8_RoundTrip ==
    (max_depth = 1 /\ data.X = RoundTripX /\ data.y = RoundTripY) =>
        /\ \A i \in Frames :
               (stack[i].depth = 0 /\ stack[i].pc \in {"left", "right"}) =>
                   /\ stack[i].best_split.feature_idx = 0
                   /\ stack[i].best_split.threshold = 2
                   /\ \A j \in DOMAIN Candidates(stack[i].X) :
                          Candidates(stack[i].X)[j] # <<0, 2>> =>
                              GainOf(stack[i], j) < stack[i].best_info_gain
        /\ FitEnded =>
               /\ call.status = "returned"
               /\ tree = Internal(0, 2, Leaf(0), Leaf(1))
        /\ (PredictEnded /\ tree # None /\ call.X = RoundTripX) =>
               (call.status = "returned" /\ call.value = <<0, 0, 1, 1>>)

C8_Witness ==
    /\ max_depth = 1
    /\ data.X = RoundTripX
    /\ data.y = RoundTripY
    /\ PredictEnded
    /\ call.X = RoundTripX
    /\ tree # None

\* C9: every nested build call gets, for the left subtree, exactly the rows of
\* its caller's X with the split feature <= threshold, each with its own
\* label, and for the right subtree exactly the rows with the feature above.
C9_ChildrenGetTheirRows ==
    \A i \in Frames :
        i > 1 =>
            LET p == stack[i - 1]
                left_mask == LeftMask(p.X, p.best_split.feature_idx,
                                      p.best_split.threshold)
                side == IF p.pc = "left" THEN left_mask
                        ELSE [r \in DOMAIN p.X |-> ~left_mask[r]]
            IN  /\ stack[i].X = Select(p.X, side)
                /\ stack[i].y = Select(p.y, side)

\* Candidate i comes before candidate j in the loops: lower feature index,
\* or the same feature and lower threshold.
Before(a, b) == a[1] < b[1] \/ (a[1] = b[1] /\ a[2] < b[2])

\* What a frame tracks after its first k - 1 candidates: nothing before any,
\* else the first of them whose gain is the greatest of them.
TracksFirstGreatest(f) ==
    LET c == Candidates(f.X)
        examined == 1 .. (f.k - 1)
        gain == [j \in examined |-> GainOf(f, j)]
    IN  /\ \A i, j \in DOMAIN c : i < j => Before(c[i], c[j])
        /\ {c[j] : j \in DOMAIN c} =
               {<<a, f.X[r][a + 1]>> : a \in 0 .. (Len(f.X[1]) - 1), r \in DOMAIN f.X}
        /\ f.pc \in {"left", "right"} => f.k = Len(c) + 1
        /\ IF examined = {}
           THEN f.best_info_gain = NegInf /\ f.best_split = None
           ELSE \E j \in examined :
                    /\ f.best_split.feature_idx = c[j][1]
                    /\ f.best_split.threshold = c[j][2]
                    /\ f.best_info_gain = gain[j]
                    /\ \A i \in examined : gain[i] <= gain[j]
                    /\ \A i \in examined : i < j => gain[i] < gain[j]

\* The innermost frame is the one that runs; every frame is innermost while
\* it searches and again when a call it made returns.
C10_Tracking == (stack # << >> /\ Top.pc # "enter") => TracksFirstGreatest(Top)

C10_NeverDecreases ==
    \A i \in Frames :
        i \in DOMAIN stack' => stack'[i].best_info_gain >= stack[i].best_info_gain

\* C10: the search examines candidates with feature index ascending and
\* distinct thresholds ascending within a feature; the tracked best gain never
\* decreases; the split chosen is the first candidate in that order whose gain
\* is the greatest, so the lowest feature index and then the lowest threshold
\* win among equal gains.
C10_FirstGreatestGainWins == []C10_Tracking /\ [][C10_NeverDecreases]_vars

\* A finished search in which two candidates on different features both have
\* the greatest gain.
C10_Witness ==
    \E i \in Frames :
        /\ stack[i].pc \in {"left", "right"}
        /\ \E a, b \in DOMAIN Candidates(stack[i].X) :
               /\ Candidates(stack[i].X)[a][1] < Candidates(stack[i].X)[b][1]
               /\ GainOf(stack[i], a) = stack[i].best_info_gain
               /\ GainOf(stack[i], b) = stack[i].best_info_gain

====
